---- MODULE Spec2Model ----
(***************************************************************************)
(* A model of src/main.py: a PyQt6 digital clock with a Settings screen    *)
(* (SettingsWidget), a Clock screen (DigitalClockWidget) and the shell     *)
(* that switches between them (MainApp).                                   *)
(*                                                                         *)
(* Text is modelled as a sequence of one-character strings, so that        *)
(* str.split, int(), strftime and QColor.name() are computed and not       *)
(* assumed.  A Python dict is a TLA+ function whose DOMAIN is its key set; *)
(* the empty dict {} is the empty function << >>.                          *)
(*                                                                         *)
(* Every handler runs to completion on the single GUI thread, so each is   *)
(* one action.  The colour swatches of the two "Select Color" buttons      *)
(* (update_color_btn) are not part of the state: nothing reads them.       *)
(***************************************************************************)
EXTENDS Integers, Sequences, FiniteSets, TLC

VARIABLES
    phase,            \* "constructing" (MainApp.__init__ before line 252), "running", "fault"
    screen,           \* stacked_widget's current widget: "Settings" or "Clock"
    window,           \* the main window: [mode, size]
    settings,         \* SettingsWidget.settings (the live dict)
    clock_settings,   \* DigitalClockWidget.settings
    shared,           \* TRUE when clock_settings is the very dict object of settings
    signal_by_value,  \* how start_clock_signal hands its dict argument to the slot
    timer,            \* DigitalClockWidget.timer: [active, interval]
    colon_visible,    \* DigitalClockWidget.colon_visible
    widget_palette,   \* clock widget palette, role Window: [set, color]
    label_palette,    \* time_label palette, role WindowText: [set, color]
    label_font,       \* time_label font: [family, pixel_size]
    label_text,       \* time_label rich text: [hours, colon, minutes]
    utc_now           \* the value datetime.utcnow() returned at the last tick

vars ==
    << phase, screen, window, settings, clock_settings, shared, signal_by_value,
       timer, colon_visible, widget_palette, label_palette, label_font,
       label_text, utc_now >>

----------------------------------------------------------------------------
(* Bounds of the exploration *)

\* how many of the sample colours the colour dialogs can return
NumColors == 2

\* the sampled UTC minutes are the multiples of MinuteStep, and 59
MinuteStep == 15

----------------------------------------------------------------------------
(* Text helpers *)

Min(a, b) == IF a < b THEN a ELSE b

DIGITS == << "0", "1", "2", "3", "4", "5", "6", "7", "8", "9" >>

HEXDIGITS ==
    << "0", "1", "2", "3", "4", "5", "6", "7", "8", "9",
       "a", "b", "c", "d", "e", "f" >>

IsDigit(c) == \E i \in 1..Len(DIGITS) : DIGITS[i] = c

DigitValue(c) == (CHOOSE i \in 1..Len(DIGITS) : DIGITS[i] = c) - 1

\* str.split(sep) for a one-character separator
RECURSIVE Split(_, _)
Split(s, sep) ==
    IF \E i \in 1..Len(s) : s[i] = sep
    THEN LET i == CHOOSE k \in 1..Len(s) :
                      s[k] = sep /\ \A j \in 1..(k - 1) : s[j] # sep
         IN  << SubSeq(s, 1, i - 1) >> \o Split(SubSeq(s, i + 1, Len(s)), sep)
    ELSE << s >>

\* the unsigned decimal value of a string of digits
RECURSIVE DecimalValue(_)
DecimalValue(s) ==
    IF s = << >> THEN 0
    ELSE DecimalValue(SubSeq(s, 1, Len(s) - 1)) * 10 + DigitValue(s[Len(s)])

IsDecimal(s) == Len(s) > 0 /\ \A i \in 1..Len(s) : IsDigit(s[i])

\* int(text): an optional sign and decimal digits (surrounding blanks and
\* underscores, which int() also accepts, occur in none of the inputs)
IntAccepts(s) ==
    /\ Len(s) > 0
    /\ IF s[1] \in {"+", "-"} THEN IsDecimal(Tail(s)) ELSE IsDecimal(s)

IntOf(s) ==
    IF s[1] = "-" THEN 0 - DecimalValue(Tail(s))
    ELSE IF s[1] = "+" THEN DecimalValue(Tail(s))
    ELSE DecimalValue(s)

\* strftime("%H") and strftime("%M"): two decimal digits, zero padded
TwoDigits(n) == << DIGITS[(n \div 10) + 1], DIGITS[(n % 10) + 1] >>

\* dict.get(key, default)
Get(d, key, default) == IF key \in DOMAIN d THEN d[key] ELSE default

----------------------------------------------------------------------------
(* Colours *)

QColor(r, g, b) == [valid |-> TRUE, rgb |-> << r, g, b >>]

\* what QColorDialog.getColor returns when the dialog is cancelled
InvalidColor == [valid |-> FALSE, rgb |-> << 0, 0, 0 >>]

Black == QColor(0, 0, 0)
Red == QColor(255, 0, 0)
White == QColor(255, 255, 255)
Blue == QColor(0, 0, 255)

HexByte(n) == << HEXDIGITS[(n \div 16) + 1], HEXDIGITS[(n % 16) + 1] >>

\* QColor.name(): "#rrggbb"
ColorName(c) == << "#" >> \o HexByte(c.rgb[1]) \o HexByte(c.rgb[2]) \o HexByte(c.rgb[3])

\* the CSS colour of the hidden colon
TRANSPARENT == << "t", "r", "a", "n", "s", "p", "a", "r", "e", "n", "t" >>

COLOR_SAMPLES == << Black, Red, Blue, White >>

\* what a colour dialog can return: a sample colour, or an invalid colour
ColorInputs ==
    { COLOR_SAMPLES[i] : i \in 1..Min(NumColors, Len(COLOR_SAMPLES)) } \cup { InvalidColor }

----------------------------------------------------------------------------
(* The domains of the Settings screen's controls *)

SIZES == << "Small", "Medium", "Full Screen" >>

GMT_MIN == -12
GMT_MAX == 14

GmtRange == GMT_MIN..GMT_MAX

FONTS ==
    << "Monospace", "Liberation Mono", "DejaVu Sans Mono",
       "Courier New", "FreeMono", "Ubuntu Mono" >>

\* a preset list with an entry typed with the wrong separator
RESOLUTIONS_mistyped ==
    << << "1", "9", "2", "0", "x", "1", "0", "8", "0" >>,
       << "1", "6", "8", "0", "x", "1", "0", "5", "0" >>,
       << "1", "6", "0", "0", "x", "9", "0", "0" >>,
       << "1", "4", "4", "0", "x", "9", "0", "0" >>,
       << "1", "3", "6", "6", "x", "7", "6", "8" >>,
       << "1", "3", "6", "0", "x", "7", "6", "8" >>,
       << "1", "2", "8", "0", "x", "1", "0", "2", "4" >>,
       << "1", "2", "8", "0", "x", "9", "6", "0" >>,
       << "1", "2", "8", "0", "x", "8", "0", "0" >>,
       << "1", "2", "8", "0", "x", "7", "2", "0" >>,
       << "1", "2", "8", "0", "*", "6", "0", "0" >> >>

RESOLUTIONS ==
    << << "1", "9", "2", "0", "x", "1", "0", "8", "0" >>,
       << "1", "6", "8", "0", "x", "1", "0", "5", "0" >>,
       << "1", "6", "0", "0", "x", "9", "0", "0" >>,
       << "1", "4", "4", "0", "x", "9", "0", "0" >>,
       << "1", "3", "6", "6", "x", "7", "6", "8" >>,
       << "1", "3", "6", "0", "x", "7", "6", "8" >>,
       << "1", "2", "8", "0", "x", "1", "0", "2", "4" >>,
       << "1", "2", "8", "0", "x", "9", "6", "0" >>,
       << "1", "2", "8", "0", "x", "8", "0", "0" >>,
       << "1", "2", "8", "0", "x", "7", "2", "0" >>,
       << "1", "2", "8", "0", "x", "6", "0", "0" >> >>

Range(seq) == { seq[i] : i \in 1..Len(seq) }

\* the default of SettingsWidget.__init__ and of show_clock's settings.get
DEFAULT_RESOLUTION == << "1", "9", "2", "0", "x", "1", "0", "8", "0" >>

\* the inputs the small explorations draw the control changes from
SizeSamples == { "Full Screen", "Medium" }
GmtSamples == { -3, GMT_MAX }
FontSamples == { FONTS[1], FONTS[4] }
ResolutionSamples == { RESOLUTIONS[1], RESOLUTIONS[5] }

\* SettingsWidget.__init__
DefaultSettings ==
    [ bg_color    |-> Black,
      text_color  |-> Red,
      size        |-> "Full Screen",
      gmt_offset  |-> -3,
      font_family |-> "Monospace",
      resolution  |-> DEFAULT_RESOLUTION ]

\* DigitalClockWidget.__init__: self.settings = {}
EmptyDict == << >>

\* the truth value of a dict
IsEmptyDict(d) == DOMAIN d = {}

----------------------------------------------------------------------------
(* The clock reading *)

UtcMinutes == { m \in 0..59 : m % MinuteStep = 0 } \cup { 59 }

\* every hour of the day, the sampled minutes
UtcAll == { [hour |-> h, minute |-> m] : h \in 0..23, m \in UtcMinutes }

\* one instant for the small explorations
UtcSamples == { [hour |-> 14, minute |-> 0] }

\* an offset applied with the wrong sign
ShiftedMinutes_westward(utc, offset) == (utc.hour * 60 + utc.minute) - offset * 60

\* utc_now + timedelta(hours=offset), as minutes from the UTC midnight
ShiftedMinutes(utc, offset) == (utc.hour * 60 + utc.minute) + offset * 60

Hours(utc, offset) == TwoDigits((ShiftedMinutes(utc, offset) \div 60) % 24)

Minutes(utc, offset) == TwoDigits(ShiftedMinutes(utc, offset) % 60)

----------------------------------------------------------------------------
(* DigitalClockWidget *)

TIMER_INTERVAL == 500

\* QTimer.start(msec)
StartTimer(t, msec) == [active |-> TRUE, interval |-> msec]

\* a stop_clock that forgets to stop the timer
StopTimer_forgotten(t) == t

\* a stop_clock that toggles the timer instead of stopping it
StopTimer_toggle(t) == [t EXCEPT !.active = ~t.active]

\* stop_clock: QTimer.stop()
StopTimer(t) == [t EXCEPT !.active = FALSE]

\* update_font_size: the percentage of the base dimension, in hundredths
Percentage(size_mode) ==
    IF size_mode = "Small" THEN 30
    ELSE IF size_mode = "Medium" THEN 50
    ELSE 55

\* a font size taken from the width of the preset
PixelSize_fromWidth(target_height, target_width, size_mode) ==
    (target_width * Percentage(size_mode)) \div 100

\* update_font_size: int(target_height * percentage).  The binary double
\* product truncates to the exact quotient for every height of RESOLUTIONS.
PixelSize(target_height, target_width, size_mode) ==
    (target_height * Percentage(size_mode)) \div 100

\* update_time: the colour of the colon span
ColonColor(visible, text_color) ==
    IF visible THEN ColorName(text_color) ELSE TRANSPARENT

\* a start_clock that begins every session with a visible colon
ColonAfterStart_reset(visible) == TRUE

\* start_clock leaves colon_visible as it is
ColonAfterStart(visible) == visible

EmptyText == [hours |-> << >>, colon |-> << >>, minutes |-> << >>]

\* start_clock leaves the text of time_label as it is
TextAfterStart(text) == text

\* update_time, the slot of timer.timeout
UpdateTime(now) ==
    IF IsEmptyDict(clock_settings)
    THEN UNCHANGED << label_text, colon_visible, utc_now >>
    ELSE LET offset == Get(clock_settings, "gmt_offset", 0)
             text_color == Get(clock_settings, "text_color", Red)
         IN  /\ utc_now' = now
             /\ label_text' = [ hours   |-> Hours(now, offset),
                                colon   |-> ColonColor(colon_visible, text_color),
                                minutes |-> Minutes(now, offset) ]
             /\ colon_visible' = ~colon_visible

\* a timeout of the running timer
Tick(times) ==
    /\ phase = "running"
    /\ timer.active
    /\ \E now \in times : UpdateTime(now)
    /\ UNCHANGED << phase, screen, window, settings, clock_settings, shared,
                    signal_by_value, timer, widget_palette, label_palette,
                    label_font >>

----------------------------------------------------------------------------
(* MainApp *)

SETTINGS_WINDOW == [mode |-> "normal", size |-> << 400, 500 >>]

\* show_settings
ShowSettings ==
    /\ timer' = StopTimer(timer)
    /\ window' = SETTINGS_WINDOW
    /\ screen' = "Settings"

\* a show_clock whose Medium branch forgets its resize
ClockWindow_mediumNotResized(size_mode, w) ==
    IF size_mode = "Full Screen" THEN [w EXCEPT !.mode = "fullscreen"]
    ELSE IF size_mode = "Small" THEN [mode |-> "normal", size |-> << 400, 200 >>]
    ELSE [w EXCEPT !.mode = "normal"]

\* show_clock: the window mode and size
ClockWindow(size_mode, w) ==
    IF size_mode = "Full Screen" THEN [w EXCEPT !.mode = "fullscreen"]
    ELSE IF size_mode = "Small" THEN [mode |-> "normal", size |-> << 400, 200 >>]
    ELSE IF size_mode = "Medium" THEN [mode |-> "normal", size |-> << 800, 400 >>]
    ELSE [w EXCEPT !.mode = "normal"]

\* show_clock: resolution.split('x') unpacks into two strings that int() accepts
Parses(resolution) ==
    LET parts == Split(resolution, "x")
    IN  Len(parts) = 2 /\ IntAccepts(parts[1]) /\ IntAccepts(parts[2])

ScreenWidth(resolution) == IntOf(Split(resolution, "x")[1])

ScreenHeight(resolution) == IntOf(Split(resolution, "x")[2])

\* show_clock(arg), with by_reference telling whether arg is the live dict itself
ShowClock(arg, by_reference) ==
    LET resolution == Get(arg, "resolution", DEFAULT_RESOLUTION)
    IN  /\ screen' = "Clock"
        /\ IF ~Parses(resolution)
           THEN /\ phase' = "fault"
                /\ UNCHANGED << window, clock_settings, shared, timer, colon_visible,
                                widget_palette, label_palette, label_font, label_text >>
           ELSE /\ phase' = phase
                /\ window' = ClockWindow(arg.size, window)
                \* start_clock
                /\ clock_settings' = arg
                /\ shared' = by_reference
                /\ widget_palette' = [set |-> TRUE, color |-> arg.bg_color]
                /\ label_palette' = [set |-> TRUE, color |-> arg.text_color]
                /\ timer' = StartTimer(timer, TIMER_INTERVAL)
                /\ colon_visible' = ColonAfterStart(colon_visible)
                /\ label_text' = TextAfterStart(label_text)
                \* update_font_size
                /\ label_font' =
                       [ family     |-> Get(arg, "font_family", "Monospace"),
                         pixel_size |-> PixelSize(ScreenHeight(resolution),
                                                  ScreenWidth(resolution), arg.size) ]

\* MainApp.__init__, line 252: the first show_settings
MainAppInit ==
    /\ phase = "constructing"
    /\ phase' = "running"
    /\ ShowSettings
    /\ UNCHANGED << settings, clock_settings, shared, signal_by_value, colon_visible,
                    widget_palette, label_palette, label_font, label_text, utc_now >>

KEY_ESCAPE == "Key_Escape"

Keys == { KEY_ESCAPE, "Key_Space", "Key_Q" }

\* a keyPressEvent that returns to the settings on any key
KeyPressEvent_anyKey(key) ==
    /\ phase = "running"
    /\ screen = "Clock"
    /\ ShowSettings
    /\ UNCHANGED << phase, settings, clock_settings, shared, signal_by_value,
                    colon_visible, widget_palette, label_palette, label_font,
                    label_text, utc_now >>

\* DigitalClockWidget.keyPressEvent; return_to_settings is connected to
\* show_settings.  A key reaches the clock widget only while it is shown.
KeyPressEvent(key) ==
    /\ phase = "running"
    /\ screen = "Clock"
    /\ IF key = KEY_ESCAPE
       THEN /\ ShowSettings
            /\ UNCHANGED << phase, settings, clock_settings, shared, signal_by_value,
                            colon_visible, widget_palette, label_palette, label_font,
                            label_text, utc_now >>
       ELSE UNCHANGED vars

KeyPress == \E key \in Keys : KeyPressEvent(key)

----------------------------------------------------------------------------
(* SettingsWidget *)

\* self.settings[key] = value; the clock's dict changes with it when it is
\* the same object
WriteSetting(key, value) ==
    /\ phase = "running"
    /\ screen = "Settings"
    /\ settings' = [settings EXCEPT ![key] = value]
    /\ clock_settings' = IF shared THEN settings' ELSE clock_settings
    /\ UNCHANGED << phase, screen, window, shared, signal_by_value, timer,
                    colon_visible, widget_palette, label_palette, label_font,
                    label_text, utc_now >>

\* choose_bg_color / choose_text_color
ChooseColor(key, color) ==
    IF color.valid
    THEN WriteSetting(key, color)
    ELSE phase = "running" /\ screen = "Settings" /\ UNCHANGED vars

choose_bg_color == \E color \in ColorInputs : ChooseColor("bg_color", color)

choose_text_color == \E color \in ColorInputs : ChooseColor("text_color", color)

set_size(texts) == \E text \in texts : WriteSetting("size", text)

set_gmt(values) == \E value \in values : WriteSetting("gmt_offset", value)

set_font(texts) == \E text \in texts : WriteSetting("font_family", text)

set_resolution(texts) == \E text \in texts : WriteSetting("resolution", text)

\* on_start: start_clock_signal.emit(self.settings), connected to show_clock.
\* The slot receives the emitted dict itself, or (signal_by_value) a dict
\* rebuilt from the signal's marshalled argument, with the same items.
on_start ==
    /\ phase = "running"
    /\ screen = "Settings"
    /\ ShowClock(settings, ~signal_by_value)
    /\ UNCHANGED << settings, signal_by_value, utc_now >>

----------------------------------------------------------------------------
(* Specifications *)

\* MainApp.__init__ at line 251: both widgets built, the signals connected.
\* The first widget added to the stack is its current widget.
Init ==
    /\ phase = "constructing"
    /\ screen = "Settings"
    /\ window = [mode |-> "hidden", size |-> << 0, 0 >>]
    /\ settings = DefaultSettings
    /\ clock_settings = EmptyDict
    /\ shared = FALSE
    /\ signal_by_value \in BOOLEAN
    /\ timer = [active |-> FALSE, interval |-> 0]
    /\ colon_visible = TRUE
    /\ widget_palette = [set |-> FALSE, color |-> InvalidColor]
    /\ label_palette = [set |-> FALSE, color |-> InvalidColor]
    /\ label_font = [family |-> "", pixel_size |-> -1]
    /\ label_text = EmptyText
    /\ utc_now = [hour |-> 0, minute |-> 0]

\* the whole application, every control drawing from a few sample inputs
Next ==
    \/ MainAppInit
    \/ choose_bg_color
    \/ choose_text_color
    \/ set_size(SizeSamples)
    \/ set_gmt(GmtSamples)
    \/ set_font(FontSamples)
    \/ set_resolution(ResolutionSamples)
    \/ on_start
    \/ Tick(UtcSamples)
    \/ KeyPress

Spec == Init /\ [][Next]_vars

\* one session at every GMT offset, ticking at every hour of the day
NextTime ==
    \/ MainAppInit
    \/ set_gmt(GmtRange)
    \/ on_start
    \/ Tick(UtcAll)

SpecTime == Init /\ [][NextTime]_vars

\* sessions at every size mode and every resolution preset
NextPresets ==
    \/ MainAppInit
    \/ set_size(Range(SIZES))
    \/ set_resolution(Range(RESOLUTIONS))
    \/ on_start
    \/ KeyPress

SpecPresets == Init /\ [][NextPresets]_vars

\* every value of the four enumerated or ranged controls, then a start
NextSettings ==
    \/ MainAppInit
    \/ set_size(Range(SIZES))
    \/ set_gmt(GmtRange)
    \/ set_font(Range(FONTS))
    \/ set_resolution(Range(RESOLUTIONS))
    \/ on_start

SpecSettings == Init /\ [][NextSettings]_vars

----------------------------------------------------------------------------
(* Properties *)

C9_StopIdempotent ==
    [][ (MainAppInit \/ KeyPressEvent(KEY_ESCAPE)) =>
            /\ ~timer'.active
            /\ StopTimer(timer') = timer'
            /\ (~timer.active => timer' = timer)
            /\ UNCHANGED << settings, clock_settings, colon_visible, label_text >>
            /\ (MainAppInit => screen' = screen) ]_vars

\* the state the stop of a never-started timer leaves
C9_Witness ==
    /\ phase = "running"
    /\ screen = "Settings"
    /\ timer = [active |-> FALSE, interval |-> 0]
    /\ window = SETTINGS_WINDOW

\* C6: the visible screen is Settings at first and always one of Settings and
\* Clock; only the start event leads from Settings to Clock, only the Escape
\* key from Clock to Settings, and any other key changes neither the visible
\* screen nor the timer.
C6_TwoStateMachine ==
    /\ screen = "Settings"
    /\ [](screen \in {"Settings", "Clock"})
    /\ [][ /\ (screen = "Settings" /\ screen' = "Clock") => on_start
           /\ (screen = "Clock" /\ screen' = "Settings") => KeyPressEvent(KEY_ESCAPE)
           /\ \A key \in Keys \ {KEY_ESCAPE} :
                  KeyPressEvent(key) => UNCHANGED << screen, timer >> ]_vars

\* the Settings screen after a round trip through the Clock screen
C6_Witness ==
    /\ screen = "Settings"
    /\ widget_palette.set
    /\ ~timer.active

\* C3: a running timer always has settings to render, so every tick toggles
\* colon_visible; a tick renders the colon in the text colour when
\* colon_visible was set and transparent otherwise, and of two consecutive
\* ticks, also across a stop and a later start, exactly one renders it
\* transparent.
C3_ColonTogglesEveryTick ==
    /\ [](timer.active => ~IsEmptyDict(clock_settings))
    /\ [][ Tick(UtcSamples) =>
               /\ colon_visible' = ~colon_visible
               /\ label_text'.colon =
                      (IF colon_visible
                       THEN ColorName(clock_settings.text_color)
                       ELSE TRANSPARENT)
               /\ (label_text # EmptyText =>
                      ((label_text'.colon = TRANSPARENT)
                           # (label_text.colon = TRANSPARENT))) ]_vars

\* a tick has just hidden the colon
C3_Witness ==
    /\ screen = "Clock"
    /\ label_text # EmptyText
    /\ label_text.colon = TRANSPARENT
    /\ colon_visible

\* C8: in the state show_clock leaves, before the first tick of the session,
\* the background, the digits and the colon are coloured by the settings
\* just passed, the colon being that text colour or transparent.
C8_ColorsAppliedAtStart ==
    [][ (on_start /\ phase' = "running") =>
            /\ widget_palette'.color = settings.bg_color
            /\ label_palette'.color = settings.text_color
            /\ (label_text' = EmptyText
                    \/ label_text'.colon
                           \in {ColorName(settings.text_color), TRANSPARENT}) ]_vars

\* the values the clock screen reads from its settings
ReadValues(d) ==
    << Get(d, "bg_color", InvalidColor), Get(d, "text_color", InvalidColor),
       Get(d, "gmt_offset", 0), Get(d, "font_family", "") >>

C4_DisplayedHour ==
    [][ Tick(UtcAll) =>
            LET offset == clock_settings.gmt_offset
                shown == label_text'
            IN  /\ offset \in -12..14
                /\ Len(shown.hours) = 2 /\ IsDecimal(shown.hours)
                /\ DecimalValue(shown.hours) = (utc_now'.hour + offset) % 24
                /\ Len(shown.minutes) = 2 /\ IsDecimal(shown.minutes)
                /\ DecimalValue(shown.minutes) = utc_now'.minute
                /\ (offset = -3 /\ utc_now' = [hour |-> 14, minute |-> 0] =>
                        /\ shown.hours = << "1", "1" >>
                        /\ shown.minutes = << "0", "0" >>) ]_vars

\* 11:00 shown at UTC 14:00 with offset -3
C4_Witness ==
    /\ clock_settings = [DefaultSettings EXCEPT !.gmt_offset = -3]
    /\ utc_now = [hour |-> 14, minute |-> 0]
    /\ label_text.hours = << "1", "1" >>
    /\ label_text.minutes = << "0", "0" >>

\* the widths and heights the presets name, in the order of the dropdown
PRESET_DIMS ==
    << << 1920, 1080 >>, << 1680, 1050 >>, << 1600, 900 >>, << 1440, 900 >>,
       << 1366, 768 >>, << 1360, 768 >>, << 1280, 1024 >>, << 1280, 960 >>,
       << 1280, 800 >>, << 1280, 720 >>, << 1280, 600 >> >>

\* C5: while a session's clock is shown, the pixel size of the label's font is
\* floor(height * percentage) for the height of the selected preset, with
\* 30, 50 and 55 percent for Small, Medium and Full Screen, whatever the
\* width; 1366x768 with Medium gives 384.
C5_FontPixelSize ==
    (phase = "running" /\ screen = "Clock") =>
        \E i \in 1..Len(PRESET_DIMS) :
            LET height == PRESET_DIMS[i][2]
                percent == CASE clock_settings.size = "Small" -> 30
                             [] clock_settings.size = "Medium" -> 50
                             [] clock_settings.size = "Full Screen" -> 55
                pixels == label_font.pixel_size
            IN  /\ clock_settings.resolution = RESOLUTIONS[i]
                /\ 100 * pixels <= height * percent
                /\ height * percent < 100 * (pixels + 1)
                /\ (i = 5 /\ clock_settings.size = "Medium" => pixels = 384)

\* 1366x768 with Medium, started
C5_Witness ==
    /\ screen = "Clock"
    /\ clock_settings.resolution = RESOLUTIONS[5]
    /\ clock_settings.size = "Medium"
    /\ label_font.pixel_size = 384

\* C7: while a session's clock is shown, the window is fullscreen for Full
\* Screen, a normal 400x200 window for Small and a normal 800x400 window for
\* Medium, for every resolution preset and every earlier session.
C7_WindowFromSizeMode ==
    (phase = "running" /\ screen = "Clock") =>
        CASE clock_settings.size = "Full Screen" -> window.mode = "fullscreen"
          [] clock_settings.size = "Small" ->
                 window = [mode |-> "normal", size |-> << 400, 200 >>]
          [] clock_settings.size = "Medium" ->
                 window = [mode |-> "normal", size |-> << 800, 400 >>]
          [] OTHER -> FALSE

\* a Medium session at the 1366x768 preset, and a Small one at the last preset
C7_Witness ==
    /\ screen = "Clock"
    /\ \/ /\ clock_settings.size = "Medium"
          /\ clock_settings.resolution = RESOLUTIONS[5]
          /\ window.size = << 800, 400 >>
       \/ /\ clock_settings.size = "Small"
          /\ clock_settings.resolution = RESOLUTIONS[11]
          /\ window.size = << 400, 200 >>

\* C10: whatever the controls were set to, gmt_offset is an integer of
\* -12..14, size one of the three modes, font_family one of the six fonts,
\* resolution one of the eleven presets, which splits on 'x' into exactly
\* two positive integers, and show_clock has not ended in a parse fault.
C10_NoParseFault ==
    /\ phase # "fault"
    /\ settings.gmt_offset \in -12..14
    /\ settings.size \in {"Small", "Medium", "Full Screen"}
    /\ settings.font_family \in
           {"Monospace", "Liberation Mono", "DejaVu Sans Mono",
            "Courier New", "FreeMono", "Ubuntu Mono"}
    /\ Cardinality(Range(RESOLUTIONS)) = 11
    /\ settings.resolution \in Range(RESOLUTIONS)
    /\ LET parts == Split(settings.resolution, "x")
       IN  /\ Len(parts) = 2
           /\ \A i \in 1..2 : IsDecimal(parts[i]) /\ DecimalValue(parts[i]) > 0

\* a clock started with every control moved off its default
C10_Witness ==
    /\ phase = "running"
    /\ screen = "Clock"
    /\ timer.active
    /\ settings.gmt_offset = 14
    /\ settings.size = "Small"
    /\ settings.font_family = "Ubuntu Mono"
    /\ settings.resolution = RESOLUTIONS[11]

====
